---- MODULE Spec2Model ----
(***************************************************************************)
(* The parser-combinator engine and grammar of the kismesis front-end      *)
(* (src/src/compiler/parser.rs, src/src/compiler/parser/errors.rs).        *)
(*                                                                         *)
(* A parser is a value (a record naming a combinator and its operands, or  *)
(* a grammar rule by name); parse(p, state) runs it on a cursor, as        *)
(* Parser::parse does for closures and boxed parsers.  A result is         *)
(*   [ok |-> TRUE,  val, state, log]        Ok((val, state))               *)
(*   [ok |-> FALSE, sev, err,   log]        Err(Err::Error/Failure(err))   *)
(* The field log is a history (ghost) value: the calls of abstract         *)
(* parsers and the Failures introduced while the result was computed, in   *)
(* execution order.  It is never read by the modelled code.                *)
(***************************************************************************)
EXTENDS Integers, Sequences, FiniteSets, TLC

VARIABLES tokens,   \* the token sequence given to the operation
          pc,       \* "ready" before the operation is applied, "done" after
          op,       \* the operation applied (a record naming it and its operands)
          result    \* what the operation returned

vars == <<tokens, pc, op, result>>

RECURSIVE parse(_, _)

(***************************************************************************)
(* Tokens (lexer::Token): Word(text), Symbol(char), Space(char),           *)
(* Indent(char), Newline(char).                                            *)
(***************************************************************************)
Word(x) == [kind |-> "Word", text |-> x]
Symbol(c) == [kind |-> "Symbol", text |-> c]
Space == [kind |-> "Space", text |-> " "]
Indent == [kind |-> "Indent", text |-> "\t"]
Newline == [kind |-> "Newline", text |-> "\n"]

None == [kind |-> "None"]

\* Token::get_as_string: the literal characters of the token
get_as_string(tok) == tok.text

\* Token::push_to_string: append the token's characters to a string
push_to_string(tok, string) == string \o tok.text

(***************************************************************************)
(* The cursor (ParserState) and positions (TokenPos).                      *)
(***************************************************************************)
TokenPos(idx, line, column) == [idx |-> idx, line |-> line, column |-> column]

ParserState_new(toks) ==
    [tokens |-> toks, position |-> TokenPos(0, 0, 0), errors |-> <<>>]

first_token(state) ==
    IF state.tokens = <<>> THEN None ELSE Head(state.tokens)

next_state(state) ==
    IF state.tokens = <<>> THEN state
    ELSE LET tok == Head(state.tokens)
             pos == state.position
         IN [state EXCEPT
               !.tokens = Tail(state.tokens),
               !.position = IF tok.kind = "Newline"
                              THEN TokenPos(pos.idx + 1, pos.line + 1, 0)
                              ELSE TokenPos(pos.idx + 1, pos.line, pos.column + 1)]

\* ParserState::advanced: the first token (or None) and the next cursor
advanced(state) == <<first_token(state), next_state(state)>>

(***************************************************************************)
(* Results and errors (errors.rs).                                         *)
(***************************************************************************)
Ok(val, state) == [ok |-> TRUE, val |-> val, state |-> state, log |-> <<>>]

ErrError(es) == [ok |-> FALSE, sev |-> "Error", err |-> es, log |-> <<>>]

ErrFailure(es) ==
    [ok |-> FALSE, sev |-> "Failure", err |-> es, log |-> <<<<"Failure", es>>>>]

\* an error kind without fields (enum Error)
ParseError(kind) == [kind |-> kind]

\* Error::state_at
state_at(error, state) ==
    ErrError([error |-> error,
              start_position |-> state.position,
              previous_errors |-> state.errors,
              end_position |-> state.position])

\* Err::cut
Err_cut(e) ==
    IF e.sev = "Error" THEN [ErrFailure(e.err) EXCEPT !.log = e.log \o @]
    ELSE e

\* history only: r, computed after the steps recorded in log
After(log, r) == [r EXCEPT !.log = log \o @]

\* the result without its history
Plain(r) == [f \in DOMAIN r \ {"log"} |-> r[f]]

Ranged(value, start, end) == [value |-> value, range |-> <<start, end>>]

\* history only: a Ranged with range (start, end) was built for a construct
\* that began at the cursor position before and ended at the position after
RangedEvent(start, end, before, after) == <<<<"Ranged", <<start, end>>, before, after>>>>

\* history only: an iteration of a loop took the cursor from before to after
\* and the loop went on
IterEvent(loop, before, after) ==
    <<<<"iter", loop, before.position.idx, after.position.idx>>>>

\* history only: the call of a grammar function on state, from entry to return
Entered(name, state, r) ==
    [r EXCEPT !.log = <<<<"enter", name, state.position.idx>>>> \o @
                        \o <<<<"exit", name>>>>]

Some(x) == [kind |-> "Some", value |-> x]

(***************************************************************************)
(* Closures given to map: named by a tag, applied by Apply.                *)
(***************************************************************************)
Apply(fun, val) ==
    CASE fun = "Expression::Variable" -> [t |-> "Variable", name |-> val]
      [] fun = "Expression::Literal" -> [t |-> "Literal", parts |-> val]
      [] fun = "Expression::None" -> [t |-> "None"]
      [] fun = "Tag::HtmlTag" -> [t |-> "HtmlTag", tag |-> val]
      [] fun = "Tag::MacroCall" -> [t |-> "MacroCall", mac |-> val]
      [] fun = "Tag::MacroDef" -> [t |-> "MacroDef", mac |-> val]
      [] fun = "Tag::PlugCall" -> [t |-> "PlugCall", plug |-> val]
      [] fun = "Tag::Content" -> [t |-> "Content"]
      [] fun = "BodyTags::HtmlTag" -> [t |-> "HtmlTag", tag |-> val]
      [] fun = "BodyTags::MacroCall" -> [t |-> "MacroCall", mac |-> val]
      [] fun = "BodyTags::Content" -> [t |-> "Content"]
      [] fun = "HtmlNodes::String" -> [t |-> "String", parts |-> val]
      [] fun = "BodyNodes::LambdaDef" -> [t |-> "LambdaDef", lambda |-> val]
      [] fun = "BodyNodes::VarDef" -> [t |-> "VarDef", var |-> val]
      [] fun = "into" -> val
      [] OTHER -> val

(***************************************************************************)
(* Parser values: the combinators' closures and the grammar's functions.   *)
(***************************************************************************)
Rule(name) == [op |-> "rule", name |-> name]
P_map(p, fun) == [op |-> "map", p |-> p, fun |-> fun]
P_or(p1, p2) == [op |-> "or", p1 |-> p1, p2 |-> p2]
P_followed_by(p1, p2) == [op |-> "followed_by", p1 |-> p1, p2 |-> p2]
P_preceding(p1, p2) == [op |-> "preceding", p1 |-> p1, p2 |-> p2]
P_and_also(p1, p2) == [op |-> "and_also", p1 |-> p1, p2 |-> p2]
P_and_maybe(p1, p2) == [op |-> "and_maybe", p1 |-> p1, p2 |-> p2]
P_zero_or_more(p) == [op |-> "zero_or_more", p |-> p]
P_peek(p) == [op |-> "peek", p |-> p]
P_cut(p) == [op |-> "cut", p |-> p]
P_get_range(p) == [op |-> "get_range", p |-> p]
P_character(chr) == [op |-> "character", chr |-> chr]
P_specific_literal(word) == [op |-> "specific_literal", word |-> word]

(***************************************************************************)
(* Generators (parser.rs, "// Generators").                                *)
(***************************************************************************)
preceding(p1, p2, state) ==
    LET r1 == parse(p1, state) IN
    IF r1.ok THEN After(r1.log, parse(p2, r1.state))
    ELSE r1

and_also(p1, p2, state) ==
    LET r1 == parse(p1, state) IN
    IF r1.ok
      THEN LET r2 == parse(p2, r1.state) IN
           IF r2.ok
             THEN After(r1.log, [r2 EXCEPT !.val = <<r1.val, r2.val>>])
             ELSE After(r1.log, r2)
      ELSE r1

\* mutant: an Error and a Failure of the optional parser both mean "absent"
and_maybe_absent_on_failure(p1, p2, state) ==
    LET r1 == parse(p1, state) IN
    IF r1.ok
      THEN LET r2 == parse(p2, r1.state) IN
           IF r2.ok
             THEN After(r1.log, [r2 EXCEPT !.val = <<r1.val, Some(r2.val)>>])
             ELSE After(r1.log \o r2.log, Ok(<<r1.val, None>>, r1.state))
      ELSE r1

and_maybe(p1, p2, state) ==
    LET r1 == parse(p1, state) IN
    IF r1.ok
      THEN LET r2 == parse(p2, r1.state) IN
           IF r2.ok
             THEN After(r1.log, [r2 EXCEPT !.val = <<r1.val, Some(r2.val)>>])
           ELSE IF r2.sev = "Error"
             THEN After(r1.log \o r2.log, Ok(<<r1.val, None>>, r1.state))
           ELSE After(r1.log, r2)
      ELSE r1

followed_by(p1, p2, state) ==
    LET r1 == parse(p1, state) IN
    IF r1.ok
      THEN LET r2 == parse(p2, r1.state) IN
           IF r2.ok
             THEN After(r1.log, [r2 EXCEPT !.val = r1.val])
             ELSE After(r1.log, r2)
      ELSE r1

\* mutant: the second parser is tried after any failure of the first
or_tries_after_failure(p1, p2, state) ==
    LET r1 == parse(p1, state) IN
    IF r1.ok THEN r1
    ELSE After(r1.log, parse(p2, state))

or(p1, p2, state) ==
    LET r1 == parse(p1, state) IN
    IF r1.ok THEN r1
    ELSE IF r1.sev = "Failure" THEN r1
    ELSE After(r1.log, parse(p2, state))

RECURSIVE zero_or_more_loop(_, _, _, _)

\* mutant: a Failure of the repeated parser ends the repetition like an Error
zero_or_more_loop_swallows(parser, state, found, log) ==
    LET r == parse(parser, state) IN
    IF r.ok
      THEN zero_or_more_loop(parser, r.state, Append(found, r.val),
                             log \o r.log \o IterEvent("zero_or_more", state, r.state))
    ELSE After(log \o r.log, Ok(found, state))

\* mutant: an Error of the repeated parser is returned instead of ending
\* the repetition
zero_or_more_loop_propagates(parser, state, found, log) ==
    LET r == parse(parser, state) IN
    IF r.ok
      THEN zero_or_more_loop(parser, r.state, Append(found, r.val),
                             log \o r.log \o IterEvent("zero_or_more", state, r.state))
    ELSE After(log, r)

\* the loop of zero_or_more: state and found are its two mutable locals
zero_or_more_loop(parser, state, found, log) ==
    LET r == parse(parser, state) IN
    IF r.ok
      THEN zero_or_more_loop(parser, r.state, Append(found, r.val),
                             log \o r.log \o IterEvent("zero_or_more", state, r.state))
    ELSE IF r.sev = "Failure" THEN After(log, r)
    ELSE After(log \o r.log, Ok(found, state))

zero_or_more(parser, state) == zero_or_more_loop(parser, state, <<>>, <<>>)

\* mutant: the cursor the parser left is returned
peek_keeps_advance(parser, state) == parse(parser, state)

peek(parser, state) ==
    LET r == parse(parser, state) IN
    IF r.ok THEN [r EXCEPT !.state = state] ELSE r

\* mutant: no promotion
cut_keeps_error(parser, state) == parse(parser, state)

cut(parser, state) ==
    LET r == parse(parser, state) IN
    IF ~r.ok /\ r.sev = "Error"
      THEN [ErrFailure(r.err) EXCEPT !.log = r.log \o @]
      ELSE r

map(parser, fun, state) ==
    LET r == parse(parser, state) IN
    IF r.ok THEN [r EXCEPT !.val = Apply(fun, r.val)] ELSE r

get_range(parser, state) ==
    LET start == state.position
        r == parse(parser, state)
    IN IF r.ok
         THEN [r EXCEPT !.val = Ranged(r.val, start, r.state.position),
                        !.log = @ \o RangedEvent(start, r.state.position,
                                                 state.position, r.state.position)]
         ELSE r

(***************************************************************************)
(* Single-token recognizers.                                               *)
(***************************************************************************)
space(state) ==
    LET a == advanced(state) IN
    IF a[1].kind = "Space" THEN Ok(a[1].text, a[2])
    ELSE state_at(ParseError("NotASpace"), a[2])

indent(state) ==
    LET a == advanced(state) IN
    IF a[1].kind = "Indent" THEN Ok(a[1].text, a[2])
    ELSE state_at(ParseError("NotAnIndent"), a[2])

newline(state) ==
    LET a == advanced(state) IN
    IF a[1].kind = "Newline" THEN Ok(a[1].text, a[2])
    ELSE state_at(ParseError("NotANewline"), a[2])

some_symbol(state) ==
    LET a == advanced(state) IN
    IF a[1].kind = "Symbol" THEN Ok(a[1].text, a[2])
    ELSE state_at(ParseError("NotSymbol"), state)

literal(state) ==
    LET a == advanced(state) IN
    IF a[1].kind = "Word" THEN Ok(a[1].text, a[2])
    ELSE state_at(ParseError("NotLiteral"), state)

character(chr, state) ==
    LET r == some_symbol(state) IN
    IF r.ok /\ r.val = chr THEN r
    ELSE IF r.ok
      THEN state_at([kind |-> "CharacterNotMatch", expected |-> chr, got |-> Some(r.val)],
                    state)
    ELSE r

specific_literal(word, state) ==
    LET r == literal(state) IN
    IF r.ok /\ r.val = word THEN r
    ELSE IF r.ok
      THEN state_at([kind |-> "LiteralNotMatch", expected |-> word, got |-> Some(r.val)],
                    state)
    ELSE r

(***************************************************************************)
(* Parsers (parser.rs, "// Parsers"): terminal wrappers.                   *)
(***************************************************************************)
quote_mark(state) ==
    LET r == parse(P_or(P_character("'"), P_character("\"")), state) IN
    IF r.ok THEN r ELSE After(r.log, state_at(ParseError("NotQuoteMark"), state))

tag_opener(state) ==
    LET r == parse(P_character("<"), state) IN
    IF r.ok THEN r ELSE After(r.log, state_at(ParseError("ExpectedTagOpener"), state))

subtag_opener(state) ==
    LET r == parse(P_character("+"), state) IN
    IF r.ok THEN r ELSE After(r.log, state_at(ParseError("ExpectedTagOpener"), state))

tag_closer(state) ==
    LET r == parse(P_character(">"), state) IN
    IF r.ok THEN r ELSE After(r.log, state_at(ParseError("ExpectedTagCloser"), state))

expr_opener(state) ==
    LET r == parse(P_character("{"), state) IN
    IF r.ok THEN r ELSE After(r.log, state_at(ParseError("ExpectedExprStart"), state))

expr_closer(state) ==
    LET r == parse(P_character("}"), state) IN
    IF r.ok THEN r ELSE After(r.log, state_at(ParseError("ExpectedExprEnd"), state))

macro_mark(state) ==
    LET r == parse(P_character("!"), state) IN
    IF r.ok THEN r ELSE After(r.log, state_at(ParseError("ExpectedMacroMark"), state))

plugin_mark(state) ==
    LET r == parse(P_character("?"), state) IN
    IF r.ok THEN r ELSE After(r.log, state_at(ParseError("ExpectedPluginMark"), state))

body_opener(state) ==
    LET r == parse(P_or(P_character("|"), Rule("newline")), state) IN
    IF r.ok THEN r ELSE After(r.log, state_at(ParseError("ExpectedBodyOpener"), state))

\* mutant: `content` is accepted as the name of a macro call
macro_name_accepts_content(state) ==
    LET r == parse(Rule("literal"), state) IN
    IF r.ok THEN r
    ELSE After(r.log, state_at(ParseError("ExpectedTagName"), state))

macro_name(state) ==
    LET r == parse(Rule("literal"), state) IN
    IF r.ok /\ r.val # "content" THEN r
    ELSE After(r.log, state_at(ParseError("ExpectedTagName"), state))

equals(state) ==
    LET r == parse(P_character("="), state) IN
    IF r.ok THEN r ELSE After(r.log, state_at(ParseError("ExpectedEquals"), state))

variable_name(state) ==
    LET r == parse(Rule("literal"), state) IN
    IF r.ok THEN r ELSE After(r.log, state_at(ParseError("ExpectedVarName"), state))

non_macro_starter(state) ==
    LET a == advanced(state) IN
    IF a[1].kind = "Word" /\ a[1].text # "macro" THEN Ok(a[1].text, a[2])
    ELSE IF a[1].kind = "Word" /\ a[1].text = "macro"
      THEN state_at(ParseError("UnexpectedMacroDef"), state)
    ELSE state_at(ParseError("ExpectedTagName"), state)

var_def_starter(state) ==
    LET a == advanced(state) IN
    IF a[1].kind = "Word" /\ a[1].text = "let" THEN Ok(a[1].text, a[2])
    ELSE state_at(ParseError("NotLiteral"), state)

lambda_def_starter(state) ==
    LET a == advanced(state) IN
    IF a[1].kind = "Word" /\ a[1].text = "lambda" THEN Ok(a[1].text, a[2])
    ELSE state_at(ParseError("NotLiteral"), state)

macro_starter(state) ==
    LET a == advanced(state) IN
    IF a[1].kind = "Word" /\ a[1].text = "macro" THEN Ok(a[1].text, a[2])
    ELSE IF a[1].kind = "Word" /\ a[1].text # "macro"
      THEN state_at(ParseError("ExpectedTagNameOrMacroDef"), state)
    ELSE state_at(ParseError("NotMacroStart"), state)

skip_spaces == P_zero_or_more(P_or(Rule("space"), Rule("indent")))

after_spaces(parser) == P_preceding(skip_spaces, parser)

skipped_blanks ==
    P_zero_or_more(P_or(P_or(Rule("space"), Rule("indent")), Rule("newline")))

skip_newline_blanks == P_zero_or_more(P_preceding(skip_spaces, Rule("newline")))

(***************************************************************************)
(* Expressions.                                                            *)
(***************************************************************************)
expression(state) ==
    LET parser == P_or(P_or(P_map(Rule("variable_name"), "Expression::Variable"),
                            P_map(Rule("quoted"), "Expression::Literal")),
                       Rule("wrapped_expr"))
    IN parse(parser, state)

binary_func(state) ==
    LET r == parse(Rule("literal"), state) IN
    IF ~r.ok THEN After(r.log, state_at(ParseError("ExpectedBinFunc"), state))
    ELSE IF r.val = "and" THEN [r EXCEPT !.val = "And"]
    ELSE IF r.val = "or" THEN [r EXCEPT !.val = "Or"]
    ELSE After(r.log, state_at(ParseError("ExpectedBinFunc"), state))

unary_func(state) ==
    LET r == parse(Rule("literal"), state) IN
    IF ~r.ok THEN After(r.log, state_at(ParseError("ExpectedUniFunc"), state))
    ELSE IF r.val = "not" THEN [r EXCEPT !.val = "Not"]
    ELSE After(r.log, state_at(ParseError("ExpectedUniFunc"), state))

binary_func_expr(state) ==
    LET parser ==
          P_and_also(P_and_also(P_get_range(Rule("expression")),
                                after_spaces(Rule("binary_func"))),
                     P_cut(after_spaces(P_get_range(Rule("expression")))))
        r == parse(parser, state)
    IN IF r.ok
         THEN [r EXCEPT !.val = [t |-> "BinFunc", fun |-> r.val[1][2],
                                  expr1 |-> r.val[1][1], expr2 |-> r.val[2]]]
         ELSE r

unary_func_expr(state) ==
    LET parser == P_and_also(Rule("unary_func"),
                             P_cut(after_spaces(P_get_range(Rule("expression")))))
        r == parse(parser, state)
    IN IF r.ok
         THEN [r EXCEPT !.val = [t |-> "UniFunc", fun |-> r.val[1], expr |-> r.val[2]]]
         ELSE r

\* mutant: the plain expression is tried before the function forms
wrapped_expr_plain_first(state) ==
    LET internal_parser ==
          P_or(P_or(P_or(Rule("expression"), Rule("binary_func_expr")),
                    Rule("unary_func_expr")),
               P_map(P_character("!"), "Expression::None"))
        parser ==
          P_preceding(Rule("expr_opener"),
                      P_followed_by(P_cut(after_spaces(internal_parser)),
                                    Rule("expr_closer")))
    IN parse(parser, state)

wrapped_expr(state) ==
    LET internal_parser ==
          P_or(P_or(P_or(Rule("binary_func_expr"), Rule("unary_func_expr")),
                    Rule("expression")),
               P_map(P_character("!"), "Expression::None"))
        parser ==
          P_preceding(Rule("expr_opener"),
                      P_followed_by(P_cut(after_spaces(internal_parser)),
                                    Rule("expr_closer")))
    IN parse(parser, state)

(***************************************************************************)
(* Quoted strings.                                                         *)
(***************************************************************************)
StringParts_String(string) == [t |-> "String", string |-> string]
StringParts_Expression(val) == [t |-> "Expression", expr |-> val]

\* mutant: every literal token starts a String part of its own
push_text_no_join(output, tok) ==
    Append(output, StringParts_String(get_as_string(tok)))

\* the `tok => match output.pop()` arm shared by quoted and string
push_text(output, tok) ==
    IF output # <<>> /\ output[Len(output)].t = "String"
      THEN [output EXCEPT ![Len(output)] =
              StringParts_String(push_to_string(tok, @.string))]
      ELSE Append(output, StringParts_String(get_as_string(tok)))

RECURSIVE quoted_loop(_, _, _, _, _)

\* mutant: end-of-input inside the string is a recoverable Error
quoted_loop_soft_eof(opener, state, output, escape, log) ==
    LET token == first_token(state) IN
    IF token.kind = "None"
      THEN After(log, state_at(ParseError("UnclosedQuote"), state))
    ELSE IF token.kind = "Symbol" /\ token.text = "@" /\ ~escape
      THEN LET r == get_range(Rule("expression"), next_state(state)) IN
           IF r.ok
             THEN quoted_loop(opener, r.state,
                              Append(output, StringParts_Expression(r.val)),
                              escape, log \o r.log \o IterEvent("quoted", state, r.state))
             ELSE After(log, r)
    ELSE IF token.kind = "Symbol" /\ token.text = opener /\ ~escape
      THEN After(log, Ok(output, next_state(state)))
    ELSE IF token.kind = "Symbol" /\ token.text = "\\" /\ ~escape
      THEN quoted_loop(opener, next_state(state), output, TRUE,
                       log \o IterEvent("quoted", state, next_state(state)))
    ELSE IF token.kind = "Newline"
      THEN After(log, state_at(ParseError("NewlineInQuote"), state))
    ELSE quoted_loop(opener, next_state(state), push_text(output, token), escape,
                     log \o IterEvent("quoted", state, next_state(state)))

\* mutant: the backslash arm sets escape and leaves the cursor where it is
quoted_loop_escape_stalls(opener, state, output, escape, log) ==
    LET token == first_token(state) IN
    IF token.kind = "None"
      THEN After(log, Err_cut(state_at(ParseError("UnclosedQuote"), state)))
    ELSE IF token.kind = "Symbol" /\ token.text = "@" /\ ~escape
      THEN LET r == get_range(Rule("expression"), next_state(state)) IN
           IF r.ok
             THEN quoted_loop(opener, r.state,
                              Append(output, StringParts_Expression(r.val)),
                              escape, log \o r.log \o IterEvent("quoted", state, r.state))
             ELSE After(log, r)
    ELSE IF token.kind = "Symbol" /\ token.text = opener /\ ~escape
      THEN After(log, Ok(output, next_state(state)))
    ELSE IF token.kind = "Symbol" /\ token.text = "\\" /\ ~escape
      THEN quoted_loop(opener, state, output, TRUE,
                       log \o IterEvent("quoted", state, state))
    ELSE IF token.kind = "Newline"
      THEN After(log, state_at(ParseError("NewlineInQuote"), state))
    ELSE quoted_loop(opener, next_state(state), push_text(output, token), escape,
                     log \o IterEvent("quoted", state, next_state(state)))

\* the while loop of quoted: state, output and escape are its mutable locals
quoted_loop(opener, state, output, escape, log) ==
    LET token == first_token(state) IN
    IF token.kind = "None"
      THEN After(log, Err_cut(state_at(ParseError("UnclosedQuote"), state)))
    ELSE IF token.kind = "Symbol" /\ token.text = "@" /\ ~escape
      THEN LET r == get_range(Rule("expression"), next_state(state)) IN
           IF r.ok
             THEN quoted_loop(opener, r.state,
                              Append(output, StringParts_Expression(r.val)),
                              escape, log \o r.log \o IterEvent("quoted", state, r.state))
             ELSE After(log, r)
    ELSE IF token.kind = "Symbol" /\ token.text = opener /\ ~escape
      THEN After(log, Ok(output, next_state(state)))
    ELSE IF token.kind = "Symbol" /\ token.text = "\\" /\ ~escape
      THEN quoted_loop(opener, next_state(state), output, TRUE,
                       log \o IterEvent("quoted", state, next_state(state)))
    ELSE IF token.kind = "Newline"
      THEN After(log, state_at(ParseError("NewlineInQuote"), state))
    ELSE quoted_loop(opener, next_state(state), push_text(output, token), escape,
                     log \o IterEvent("quoted", state, next_state(state)))

quoted(state) ==
    LET r == parse(Rule("quote_mark"), state) IN
    IF r.ok THEN quoted_loop(r.val, r.state, <<>>, FALSE, r.log)
    ELSE r

(***************************************************************************)
(* Tags, macros, plugins.                                                  *)
(***************************************************************************)
variable_definition(state) ==
    LET parser ==
          P_and_also(P_preceding(Rule("var_def_starter"), after_spaces(Rule("literal"))),
                     P_cut(P_preceding(after_spaces(Rule("equals")),
                                       after_spaces(Rule("quoted")))))
        r == parse(parser, state)
    IN IF r.ok THEN [r EXCEPT !.val = [name |-> r.val[1], value |-> r.val[2]]]
       ELSE r

lambda_definition(state) ==
    LET parser ==
          P_preceding(Rule("lambda_def_starter"),
                      P_and_maybe(P_cut(after_spaces(Rule("literal"))),
                                  P_preceding(after_spaces(Rule("equals")),
                                              after_spaces(Rule("quoted")))))
        r == parse(parser, state)
    IN IF r.ok THEN [r EXCEPT !.val = [name |-> r.val[1], value |-> r.val[2]]]
       ELSE r

some_tag(state) ==
    LET parser ==
          P_preceding(Rule("tag_opener"),
            P_cut(after_spaces(
              P_followed_by(
                P_or(P_or(P_or(P_or(P_map(Rule("tag"), "Tag::HtmlTag"),
                                    P_map(Rule("macro_call"), "Tag::MacroCall")),
                               P_map(Rule("macro_def"), "Tag::MacroDef")),
                          P_map(Rule("plug_call"), "Tag::PlugCall")),
                     P_map(Rule("content_macro"), "Tag::Content")),
                P_preceding(skipped_blanks, Rule("tag_closer"))))))
    IN parse(parser, state)

some_child_tag(state) ==
    LET parser ==
          P_preceding(P_character("<"),
            P_cut(after_spaces(
              P_followed_by(
                P_or(P_or(P_map(Rule("tag"), "BodyTags::HtmlTag"),
                          P_map(Rule("macro_call"), "BodyTags::MacroCall")),
                     P_map(Rule("content_macro"), "BodyTags::Content")),
                P_preceding(skipped_blanks, Rule("tag_closer"))))))
    IN parse(parser, state)

unwrap_or(opt, default) == IF opt.kind = "Some" THEN opt.value ELSE default

tag(state) ==
    LET parser == P_and_maybe(Rule("tag_head"), Rule("tag_body"))
        r == parse(parser, state)
    IN IF r.ok
         THEN [r EXCEPT !.val = [name |-> r.val[1][1],
                                  attributes |-> r.val[1][2],
                                  body |-> unwrap_or(r.val[2], <<>>),
                                  subtags |-> r.val[1][3]]]
         ELSE r

content_macro(state) ==
    LET parser == P_followed_by(P_specific_literal("content"),
                                after_spaces(Rule("macro_mark")))
        r == parse(parser, state)
    IN IF r.ok THEN [r EXCEPT !.val = <<>>] ELSE r

plug_call(state) ==
    LET parser == P_and_maybe(Rule("plugin_head"), Rule("plugin_body"))
        r == parse(parser, state)
    IN IF r.ok
         THEN [r EXCEPT !.val = [name |-> r.val[1][1],
                                  arguments |-> r.val[1][2],
                                  body |-> r.val[2]]]
         ELSE r

macro_call(state) ==
    LET r == parse(Rule("macro_call_head"), state) IN
    IF r.ok
      THEN [r EXCEPT !.val = [name |-> r.val[1], arguments |-> r.val[2],
                               body |-> <<>>]]
      ELSE r

macro_def(state) ==
    LET parser == P_and_maybe(Rule("macro_def_head"), Rule("tag_body"))
        r == parse(parser, state)
    IN IF r.ok
         THEN [r EXCEPT !.val = [name |-> r.val[1][1],
                                  arguments |-> r.val[1][2],
                                  body |-> unwrap_or(r.val[2], <<>>)]]
         ELSE r

tag_head(state) ==
    LET cut_cond ==
          P_or(P_or(P_or(P_or(P_or(Rule("space"), Rule("indent")),
                              Rule("body_opener")),
                         Rule("tag_closer")),
                    Rule("tag_opener")),
               Rule("subtag_opener"))
        parser ==
          P_and_also(
            P_and_also(P_followed_by(P_get_range(Rule("non_macro_starter")),
                                     P_peek(cut_cond)),
                       P_cut(P_zero_or_more(after_spaces(Rule("attribute"))))),
            P_zero_or_more(after_spaces(Rule("subtag"))))
        r == parse(parser, state)
    IN IF r.ok THEN [r EXCEPT !.val = <<r.val[1][1], r.val[1][2], r.val[2]>>]
       ELSE r

RECURSIVE plugin_head_loop(_, _, _, _, _, _)
\* the while loop of plugin_head: state, tokens (toks) and escape are its locals
plugin_head_loop(name, start, state, toks, escape, log) ==
    LET token == first_token(state) IN
    IF token.kind = "None"
      THEN After(log, Err_cut(state_at(ParseError("EndlessString"), state)))
    ELSE IF token.kind = "Symbol" /\ token.text = "\\" /\ ~escape
      THEN plugin_head_loop(name, start, next_state(state), toks, TRUE,
                            log \o IterEvent("plugin_head", state, next_state(state)))
    ELSE IF token.kind = "Symbol" /\ ~escape /\ (token.text = ">" \/ token.text = "|")
      THEN After(log \o RangedEvent(start, state.position, start, state.position),
                 Ok(<<name, Ranged(toks, start, state.position)>>, state))
    ELSE IF token.kind = "Newline"
      THEN After(log \o RangedEvent(start, state.position, start, state.position),
                 Ok(<<name, Ranged(toks, start, state.position)>>, state))
    ELSE plugin_head_loop(name, start, next_state(state), Append(toks, token),
                          escape,
                          log \o IterEvent("plugin_head", state, next_state(state)))

plugin_head(state) ==
    LET parser == P_followed_by(P_followed_by(P_get_range(Rule("non_macro_starter")),
                                              Rule("plugin_mark")),
                                skip_spaces)
        r == parse(parser, state)
    IN IF r.ok
         THEN plugin_head_loop(r.val, r.state.position, r.state, <<>>, FALSE, r.log)
         ELSE r

macro_call_head(state) ==
    LET parser ==
          P_and_also(P_followed_by(P_get_range(Rule("macro_name")), Rule("macro_mark")),
                     P_cut(P_zero_or_more(P_preceding(skip_spaces, Rule("argument")))))
    IN parse(parser, state)

macro_def_head(state) ==
    LET parser ==
          P_preceding(after_spaces(Rule("macro_starter")),
                      P_and_also(P_cut(after_spaces(P_get_range(Rule("literal")))),
                                 P_zero_or_more(after_spaces(Rule("argument")))))
    IN parse(parser, state)

tag_body(state) ==
    LET parser ==
          P_preceding(
            P_preceding(P_preceding(skip_spaces, Rule("body_opener")), skipped_blanks),
            P_zero_or_more(
              P_or(P_map(P_preceding(skip_newline_blanks, Rule("string")),
                         "HtmlNodes::String"),
                   P_preceding(skipped_blanks, P_map(Rule("some_child_tag"), "into")))))
    IN parse(parser, state)

RECURSIVE plugin_body_loop(_, _, _, _, _)
\* the while loop of plugin_body
plugin_body_loop(start, state, toks, escape, log) ==
    LET token == first_token(state) IN
    IF token.kind = "None"
      THEN After(log, Err_cut(state_at(ParseError("EndlessString"), state)))
    ELSE IF token.kind = "Symbol" /\ token.text = "\\" /\ ~escape
      THEN plugin_body_loop(start, next_state(state), toks, TRUE,
                            log \o IterEvent("plugin_body", state, next_state(state)))
    ELSE IF token.kind = "Symbol" /\ ~escape /\ token.text = ">"
      THEN After(log \o RangedEvent(start, state.position, start, state.position),
                 Ok(Ranged(toks, start, state.position), state))
    ELSE plugin_body_loop(start, next_state(state), Append(toks, token), escape,
                          log \o IterEvent("plugin_body", state, next_state(state)))

plugin_body(state) ==
    LET parser == P_followed_by(P_preceding(skip_spaces, Rule("body_opener")),
                                skipped_blanks)
        r == parse(parser, state)
    IN IF r.ok
         THEN plugin_body_loop(r.state.position, r.state, <<>>, FALSE, r.log)
         ELSE r

RECURSIVE string_loop(_, _, _, _, _)
\* the while loop of string: state, output, escape and in_newline are its locals
string_loop(state, output, escape, in_newline, log) ==
    LET token == first_token(state) IN
    IF token.kind = "None"
      THEN After(log, Err_cut(state_at(ParseError("EndlessString"), state)))
    ELSE IF token.kind = "Symbol" /\ token.text = "@" /\ ~escape
      THEN LET r == get_range(Rule("expression"), next_state(state)) IN
           IF r.ok
             THEN string_loop(r.state, Append(output, StringParts_Expression(r.val)),
                              escape, in_newline,
                              log \o r.log \o IterEvent("string", state, r.state))
             ELSE After(log, r)
    ELSE IF token.kind = "Symbol" /\ token.text \in {"<", ">"} /\ ~escape
      THEN IF output # <<>> THEN After(log, Ok(output, state))
           ELSE After(log, state_at(ParseError("EmptyString"), state))
    ELSE IF token.kind = "Symbol" /\ token.text = "\\" /\ ~escape
      THEN string_loop(next_state(state), output, TRUE, in_newline,
                       log \o IterEvent("string", state, next_state(state)))
    ELSE IF token.kind = "Newline"
      THEN string_loop(next_state(state), output, escape, TRUE,
                       log \o IterEvent("string", state, next_state(state)))
    ELSE IF token.kind \in {"Space", "Indent"} /\ in_newline /\ ~escape
      THEN string_loop(next_state(state), output, escape, in_newline,
                       log \o IterEvent("string", state, next_state(state)))
    ELSE string_loop(next_state(state), push_text(output, token), escape,
                     in_newline,
                     log \o IterEvent("string", state, next_state(state)))

string(state) == string_loop(state, <<>>, FALSE, FALSE, <<>>)

subtag(state) ==
    LET parser ==
          P_preceding(Rule("subtag_opener"),
                      P_and_also(P_cut(after_spaces(P_get_range(Rule("literal")))),
                                 P_zero_or_more(P_preceding(skip_spaces,
                                                            Rule("attribute")))))
        r == parse(parser, state)
    IN IF r.ok
         THEN [r EXCEPT !.val = [name |-> r.val[1], attributes |-> r.val[2],
                                  subtags |-> <<>>, body |-> <<>>]]
         ELSE r

attribute(state) ==
    LET parser ==
          P_and_also(P_followed_by(P_get_range(Rule("literal")), skip_spaces),
                     P_cut(P_preceding(Rule("equals"),
                             P_preceding(P_zero_or_more(P_or(Rule("space"),
                                                             Rule("indent"))),
                                         Rule("quoted")))))
        r == parse(parser, state)
    IN IF r.ok THEN [r EXCEPT !.val = [name |-> r.val[1], value |-> r.val[2]]]
       ELSE r

argument(state) ==
    LET parser ==
          P_and_maybe(
            P_followed_by(P_get_range(Rule("literal")),
                          P_zero_or_more(P_or(Rule("space"), Rule("indent")))),
            P_preceding(Rule("equals"),
              P_preceding(P_zero_or_more(P_or(Rule("space"), Rule("indent"))),
                          Rule("quoted"))))
        r == parse(parser, state)
    IN IF r.ok THEN [r EXCEPT !.val = [name |-> r.val[1], value |-> r.val[2]]]
       ELSE r

(***************************************************************************)
(* Abstract parsers: a parser given by its outcome at each cursor index    *)
(* (absent index: Error).  On "Ok" it consumes adv tokens (0 or 1) and     *)
(* returns <<id, index>>; each call is recorded in the history.            *)
(***************************************************************************)
Probe(id, table, adv) == [op |-> "probe", id |-> id, table |-> table, adv |-> adv]

probe(p, state) ==
    LET i == state.position.idx
        outcome == IF i \in DOMAIN p.table THEN p.table[i] ELSE "Error"
        call == <<<<"call", p.id, i>>>>
    IN IF outcome = "Ok" /\ (p.adv = 0 \/ state.tokens # <<>>)
         THEN After(call, Ok(<<p.id, i>>,
                             IF p.adv = 0 THEN state ELSE next_state(state)))
       ELSE IF outcome = "Failure"
         THEN After(call, Err_cut(state_at([kind |-> "Failed", id |-> p.id], state)))
       ELSE After(call, state_at([kind |-> "Mismatch", id |-> p.id], state))

(***************************************************************************)
(* Parser::parse: run a parser value on a cursor.                          *)
(***************************************************************************)
CallRule(name, state) ==
    CASE name = "space" -> space(state)
      [] name = "indent" -> indent(state)
      [] name = "newline" -> newline(state)
      [] name = "some_symbol" -> some_symbol(state)
      [] name = "literal" -> literal(state)
      [] name = "quote_mark" -> quote_mark(state)
      [] name = "tag_opener" -> tag_opener(state)
      [] name = "subtag_opener" -> subtag_opener(state)
      [] name = "tag_closer" -> tag_closer(state)
      [] name = "expr_opener" -> expr_opener(state)
      [] name = "expr_closer" -> expr_closer(state)
      [] name = "macro_mark" -> macro_mark(state)
      [] name = "plugin_mark" -> plugin_mark(state)
      [] name = "body_opener" -> body_opener(state)
      [] name = "macro_name" -> macro_name(state)
      [] name = "equals" -> equals(state)
      [] name = "variable_name" -> variable_name(state)
      [] name = "non_macro_starter" -> non_macro_starter(state)
      [] name = "var_def_starter" -> var_def_starter(state)
      [] name = "lambda_def_starter" -> lambda_def_starter(state)
      [] name = "macro_starter" -> macro_starter(state)
      [] name = "expression" -> Entered("expression", state, expression(state))
      [] name = "binary_func" -> binary_func(state)
      [] name = "unary_func" -> unary_func(state)
      [] name = "binary_func_expr" -> binary_func_expr(state)
      [] name = "unary_func_expr" -> unary_func_expr(state)
      [] name = "wrapped_expr" -> wrapped_expr(state)
      [] name = "quoted" -> quoted(state)
      [] name = "variable_definition" -> variable_definition(state)
      [] name = "lambda_definition" -> lambda_definition(state)
      [] name = "some_tag" -> some_tag(state)
      [] name = "some_child_tag" -> some_child_tag(state)
      [] name = "tag" -> Entered("tag", state, tag(state))
      [] name = "content_macro" -> content_macro(state)
      [] name = "plug_call" -> plug_call(state)
      [] name = "macro_call" -> macro_call(state)
      [] name = "macro_def" -> macro_def(state)
      [] name = "tag_head" -> tag_head(state)
      [] name = "plugin_head" -> plugin_head(state)
      [] name = "macro_call_head" -> macro_call_head(state)
      [] name = "macro_def_head" -> macro_def_head(state)
      [] name = "tag_body" -> tag_body(state)
      [] name = "plugin_body" -> plugin_body(state)
      [] name = "string" -> string(state)
      [] name = "subtag" -> subtag(state)
      [] name = "attribute" -> attribute(state)
      [] name = "argument" -> argument(state)

parse(p, state) ==
    CASE p.op = "rule" -> CallRule(p.name, state)
      [] p.op = "probe" -> probe(p, state)
      [] p.op = "map" -> map(p.p, p.fun, state)
      [] p.op = "or" -> or(p.p1, p.p2, state)
      [] p.op = "followed_by" -> followed_by(p.p1, p.p2, state)
      [] p.op = "preceding" -> preceding(p.p1, p.p2, state)
      [] p.op = "and_also" -> and_also(p.p1, p.p2, state)
      [] p.op = "and_maybe" -> and_maybe(p.p1, p.p2, state)
      [] p.op = "zero_or_more" -> zero_or_more(p.p, state)
      [] p.op = "peek" -> peek(p.p, state)
      [] p.op = "cut" -> cut(p.p, state)
      [] p.op = "get_range" -> get_range(p.p, state)
      [] p.op = "character" -> character(p.chr, state)
      [] p.op = "specific_literal" -> specific_literal(p.word, state)

(***************************************************************************)
(* Tree assembly.                                                          *)
(***************************************************************************)
\* HtmlTag::merge_subtags (types.rs): the tag with its subtags folded in
merge_subtags(t) == [merged |-> t]

ParsedFile_new(toks, path) ==
    [tokens |-> toks, path |-> path, body |-> <<>>, defined_macros |-> <<>>,
     defined_lambdas |-> <<>>, defined_variables |-> <<>>]

RECURSIVE bucket(_, _)
\* mutant: a node is put at the front of its bucket
bucket_pushes_front(ast_nodes, output) ==
    IF ast_nodes = <<>> THEN output
    ELSE LET node == Head(ast_nodes)
             next ==
               CASE node.t = "HtmlTag" ->
                      [output EXCEPT !.body =
                         <<[t |-> "HtmlTag", tag |-> merge_subtags(node.tag)]>> \o @]
                 [] node.t = "MacroDef" ->
                      [output EXCEPT !.defined_macros = <<node.mac>> \o @]
                 [] node.t = "MacroCall" ->
                      [output EXCEPT !.body = <<node>> \o @]
                 [] node.t = "LambdaDef" ->
                      [output EXCEPT !.defined_lambdas = <<node.lambda>> \o @]
                 [] node.t = "VarDef" ->
                      [output EXCEPT !.defined_variables = <<node.var>> \o @]
                 [] node.t = "PlugCall" ->
                      [output EXCEPT !.body = <<node>> \o @]
                 [] node.t = "Content" ->
                      [output EXCEPT !.body = <<node>> \o @]
         IN bucket(Tail(ast_nodes), next)

\* the `for node in ast_nodes` loop of file
bucket(ast_nodes, output) ==
    IF ast_nodes = <<>> THEN output
    ELSE LET node == Head(ast_nodes)
             next ==
               CASE node.t = "HtmlTag" ->
                      [output EXCEPT !.body =
                         Append(@, [t |-> "HtmlTag", tag |-> merge_subtags(node.tag)])]
                 [] node.t = "MacroDef" ->
                      [output EXCEPT !.defined_macros = Append(@, node.mac)]
                 [] node.t = "MacroCall" ->
                      [output EXCEPT !.body = Append(@, node)]
                 [] node.t = "LambdaDef" ->
                      [output EXCEPT !.defined_lambdas = Append(@, node.lambda)]
                 [] node.t = "VarDef" ->
                      [output EXCEPT !.defined_variables = Append(@, node.var)]
                 [] node.t = "PlugCall" ->
                      [output EXCEPT !.body = Append(@, node)]
                 [] node.t = "Content" ->
                      [output EXCEPT !.body = Append(@, node)]
         IN bucket(Tail(ast_nodes), next)

\* mutant: on failure the tokens left at the point of the error are returned
file_returns_rest(toks, path) ==
    LET parser ==
          P_zero_or_more(
            P_preceding(skipped_blanks,
              P_or(P_or(P_map(Rule("some_tag"), "into"),
                        P_map(Rule("lambda_definition"), "BodyNodes::LambdaDef")),
                   P_map(Rule("variable_definition"), "BodyNodes::VarDef"))))
        r == parse(parser, ParserState_new(toks))
    IN IF r.ok
         THEN [ok |-> TRUE, val |-> bucket(r.val, ParsedFile_new(toks, path)),
               nodes |-> r.val, log |-> r.log]
         ELSE [ok |-> FALSE, sev |-> r.sev, err |-> r.err,
               tokens |-> SubSeq(toks, r.err.start_position.idx + 1, Len(toks)),
               log |-> r.log]

\* file: Ok(ParsedFile) or Err((err, tokens))
file(toks, path) ==
    LET parser ==
          P_zero_or_more(
            P_preceding(skipped_blanks,
              P_or(P_or(P_map(Rule("some_tag"), "into"),
                        P_map(Rule("lambda_definition"), "BodyNodes::LambdaDef")),
                   P_map(Rule("variable_definition"), "BodyNodes::VarDef"))))
        r == parse(parser, ParserState_new(toks))
    IN IF r.ok
         THEN [ok |-> TRUE, val |-> bucket(r.val, ParsedFile_new(toks, path)),
               nodes |-> r.val, log |-> r.log]
         ELSE [ok |-> FALSE, sev |-> r.sev, err |-> r.err, tokens |-> toks,
               log |-> r.log]

(***************************************************************************)
(* The state machine: an input is chosen, one operation is applied to it.  *)
(***************************************************************************)
Apply_file ==
    /\ pc = "ready"
    /\ pc' = "done"
    /\ op' = [name |-> "file"]
    /\ result' = file(tokens, None)
    /\ UNCHANGED tokens

Apply_quoted ==
    /\ pc = "ready"
    /\ pc' = "done"
    /\ op' = [name |-> "quoted"]
    /\ result' = quoted(ParserState_new(tokens))
    /\ UNCHANGED tokens

(***************************************************************************)
(* Combinators applied to abstract parsers.                                *)
(***************************************************************************)
\* the largest cursor index of the combinator runs
MaxPos == 2

Outcomes == {"Ok", "Error", "Failure"}

Probes(id) ==
    {Probe(id, table, adv) : table \in [0..MaxPos -> Outcomes], adv \in {0, 1}}

CombTokens == [i \in 1..MaxPos |-> Word("a")]

RECURSIVE CursorAt(_, _)
\* the cursor reached from the start of toks by k calls of next_state
CursorAt(toks, k) ==
    IF k = 0 THEN ParserState_new(toks) ELSE next_state(CursorAt(toks, k - 1))

Apply_or ==
    /\ pc = "ready"
    /\ \E a \in Probes("a"), b \in Probes("b"), k \in 0..Len(tokens) :
         LET state == CursorAt(tokens, k) IN
         /\ op' = [name |-> "or", p1 |-> a, p2 |-> b, state |-> state]
         /\ result' = or(a, b, state)
    /\ pc' = "done"
    /\ UNCHANGED tokens

Apply_cut ==
    /\ pc = "ready"
    /\ \E p \in Probes("a"), k \in 0..Len(tokens) :
         LET state == CursorAt(tokens, k) IN
         /\ op' = [name |-> "cut", p |-> p, state |-> state]
         /\ result' = cut(p, state)
    /\ pc' = "done"
    /\ UNCHANGED tokens

\* zero_or_more returns only for a parser that consumes when it succeeds
Apply_zero_or_more ==
    /\ pc = "ready"
    /\ \E p \in Probes("a"), k \in 0..Len(tokens) :
         LET state == CursorAt(tokens, k) IN
         /\ p.adv = 1
         /\ op' = [name |-> "zero_or_more", p |-> p, state |-> state]
         /\ result' = zero_or_more(p, state)
    /\ pc' = "done"
    /\ UNCHANGED tokens

Apply_and_maybe ==
    /\ pc = "ready"
    /\ \E a \in Probes("a"), b \in Probes("b"), k \in 0..Len(tokens) :
         LET state == CursorAt(tokens, k) IN
         /\ op' = [name |-> "and_maybe", p1 |-> a, p2 |-> b, state |-> state]
         /\ result' = and_maybe(a, b, state)
    /\ pc' = "done"
    /\ UNCHANGED tokens

Apply_plugin_head ==
    /\ pc = "ready"
    /\ pc' = "done"
    /\ op' = [name |-> "plugin_head"]
    /\ result' = plugin_head(ParserState_new(tokens))
    /\ UNCHANGED tokens

Apply_plugin_body ==
    /\ pc = "ready"
    /\ pc' = "done"
    /\ op' = [name |-> "plugin_body"]
    /\ result' = plugin_body(ParserState_new(tokens))
    /\ UNCHANGED tokens

InitComb ==
    /\ tokens = CombTokens
    /\ pc = "ready"
    /\ op = [name |-> "none"]
    /\ result = None

NextComb == Apply_or \/ Apply_cut \/ Apply_zero_or_more \/ Apply_and_maybe

SpecComb == InitComb /\ [][NextComb]_vars

\* the calls of the abstract parser id recorded in a history, in order
CallsOf(id, log) == SelectSeq(log, LAMBDA e : e[1] = "call" /\ e[2] = id)

IsError(r) == ~r.ok /\ r.sev = "Error"
IsFailure(r) == ~r.ok /\ r.sev = "Failure"

\* C2: or(a, b) on s returns a's result without running b when a succeeds or
\* fails with Failure; when a fails with Error it runs b once, on s itself,
\* and returns b's result.
C2_OrContract ==
    (pc = "done" /\ op.name = "or") =>
      LET ra == parse(op.p1, op.state)
          rb == parse(op.p2, op.state)
      IN /\ (ra.ok \/ IsFailure(ra)) =>
              /\ Plain(result) = Plain(ra)
              /\ CallsOf("b", result.log) = <<>>
         /\ IsError(ra) =>
              /\ Plain(result) = Plain(rb)
              /\ CallsOf("b", result.log) = <<<<"call", "b", op.state.position.idx>>>>
         /\ CallsOf("a", result.log) = <<<<"call", "a", op.state.position.idx>>>>

\* a failed with Error and b then succeeded from the original cursor,
\* consuming a token
C2_Witness ==
    /\ pc = "done" /\ op.name = "or"
    /\ IsError(parse(op.p1, op.state))
    /\ result.ok
    /\ result.val = <<"b", op.state.position.idx>>
    /\ result.state.position.idx = op.state.position.idx + 1

\* C3: cut(p) turns p's Error(e) into Failure(e) with the same error state and
\* returns p's Failure or success unchanged.
C3_CutContract ==
    (pc = "done" /\ op.name = "cut") =>
      LET r == parse(op.p, op.state) IN
      /\ IsError(r) => (IsFailure(result) /\ result.err = r.err)
      /\ ~IsError(r) => Plain(result) = Plain(r)

C3_Witness ==
    /\ pc = "done" /\ op.name = "cut"
    /\ IsError(parse(op.p, op.state))
    /\ IsFailure(result)
    /\ result.err.error = [kind |-> "Mismatch", id |-> "a"]
    /\ result.err.start_position = op.state.position

\* the outcome of an abstract consuming parser at cursor index i of toks
Eff(p, toks, i) ==
    IF i \in DOMAIN p.table /\ p.table[i] = "Ok" /\ i < Len(toks) THEN "Ok"
    ELSE IF i \in DOMAIN p.table /\ p.table[i] = "Failure" THEN "Failure"
    ELSE "Error"

\* the number of consecutive successes of p from cursor index k
Successes(p, toks, k) ==
    CHOOSE j \in 0..(Len(toks) + 1) :
      /\ Eff(p, toks, k + j) # "Ok"
      /\ \A m \in 0..(j - 1) : Eff(p, toks, k + m) = "Ok"

\* the calls of abstract parsers and the Failures recorded in a history
CallsAndFailures(log) == SelectSeq(log, LAMBDA e : e[1] \in {"call", "Failure"})

\* C4: zero_or_more(p) on s runs p from s and then from each cursor a success
\* left; at p's first Error it returns Ok with the earlier values in order and
\* the cursor of the last success (s and the empty list if there was none);
\* it never returns Error; at a Failure of p it returns that Failure.
C4_ZeroOrMoreContract ==
    (pc = "done" /\ op.name = "zero_or_more") =>
      LET k == op.state.position.idx
          j == Successes(op.p, tokens, k)
          last == parse(op.p, CursorAt(tokens, k + j))
      IN /\ ~IsError(result)
         /\ CallsAndFailures(result.log) =
              [m \in 1..(j + 1) |-> <<"call", "a", k + m - 1>>]
                           \o (IF IsFailure(last) THEN <<<<"Failure", last.err>>>>
                               ELSE <<>>)
         /\ IsError(last) =>
              /\ result.ok
              /\ result.val = [m \in 1..j |-> <<"a", k + m - 1>>]
              /\ result.state = CursorAt(tokens, k + j)
         /\ IsFailure(last) => Plain(result) = Plain(last)

\* two successes, then an Error: both values are returned in order
C4_Witness ==
    /\ pc = "done" /\ op.name = "zero_or_more"
    /\ op.state.position.idx = 0
    /\ result.ok
    /\ result.val = <<<<"a", 0>>, <<"a", 1>>>>
    /\ result.state.position.idx = 2

\* C5: and_maybe(a, b) returns a's error without running b; after a's success
\* (x, s1) it returns ((x, Some(y)), s2) when b succeeds on s1 with (y, s2),
\* ((x, None), s1) when b fails with Error, and b's Failure when b fails with
\* Failure.
C5_AndMaybeContract ==
    (pc = "done" /\ op.name = "and_maybe") =>
      LET ra == parse(op.p1, op.state) IN
      /\ ~ra.ok =>
           /\ Plain(result) = Plain(ra)
           /\ CallsOf("b", result.log) = <<>>
      /\ ra.ok =>
           LET rb == parse(op.p2, ra.state) IN
           /\ CallsOf("b", result.log) = <<<<"call", "b", ra.state.position.idx>>>>
           /\ rb.ok =>
                /\ result.ok
                /\ result.val = <<ra.val, Some(rb.val)>>
                /\ result.state = rb.state
           /\ IsError(rb) =>
                /\ result.ok
                /\ result.val = <<ra.val, None>>
                /\ result.state = ra.state
           /\ IsFailure(rb) => Plain(result) = Plain(rb)

\* a consumed a token and b failed with Failure on the cursor a left
C5_Witness ==
    /\ pc = "done" /\ op.name = "and_maybe"
    /\ parse(op.p1, op.state).ok
    /\ parse(op.p1, op.state).state.position.idx = op.state.position.idx + 1
    /\ IsFailure(result)
    /\ result.err.error = [kind |-> "Failed", id |-> "b"]
    /\ result.err.start_position.idx = op.state.position.idx + 1

(***************************************************************************)
(* Bounded inputs.                                                         *)
(***************************************************************************)
\* the sequences over alphabet of length at most n
RECURSIVE SeqsUpTo(_, _)
SeqsUpTo(alphabet, n) ==
    IF n = 0 THEN {<<>>}
    ELSE LET shorter == SeqsUpTo(alphabet, n - 1) IN
         shorter \cup {Append(q, t) : q \in shorter, t \in alphabet}

RECURSIVE TextOf(_)
\* the characters of a token sequence
TextOf(toks) ==
    IF toks = <<>> THEN "" ELSE get_as_string(Head(toks)) \o TextOf(Tail(toks))

Quote == Symbol("\"")
Apostrophe == Symbol("'")
At == Symbol("@")
Backslash == Symbol("\\")

(***************************************************************************)
(* quoted applied to token sequences that start with a quote mark.         *)
(***************************************************************************)
\* the longest quoted input, not counting its opening quote mark
MaxQuotedLen == 4

QuotedAlphabet ==
    {Quote, Apostrophe, Word("a"), At, Backslash, Newline,
     Symbol("{"), Symbol("}"), Symbol("!")}

\* the tokens of "hi @name!"
HiName == <<Quote, Word("hi"), Space, At, Word("name"), Symbol("!"), Quote>>

\* the tokens of "a\"b"
EscapedQuote == <<Quote, Word("a"), Backslash, Quote, Word("b"), Quote>>

QuotedInputs ==
    {<<Quote>> \o q : q \in SeqsUpTo(QuotedAlphabet, MaxQuotedLen)}
      \cup {HiName, EscapedQuote}

InitQuoted ==
    /\ tokens \in QuotedInputs
    /\ pc = "ready"
    /\ op = [name |-> "none"]
    /\ result = None

NextQuoted == Apply_quoted

SpecQuoted == InitQuoted /\ [][NextQuoted]_vars

\* token i of toks directly follows a backslash that is not itself escaped
\* (token 1 is the opening quote mark)
RECURSIVE Escaped(_, _)
Escaped(toks, i) ==
    /\ i > 2
    /\ toks[i - 1] = Backslash
    /\ ~Escaped(toks, i - 1)

\* no unescaped quote mark of the opener's kind follows the opener
NoClosingQuote(toks) ==
    \A i \in 2..Len(toks) : ~(toks[i] = toks[1] /\ ~Escaped(toks, i))

\* every unescaped `@` is directly followed by a word
AtsNameVariables(toks) ==
    \A i \in 2..Len(toks) :
      (toks[i] = At /\ ~Escaped(toks, i)) =>
        (i < Len(toks) /\ toks[i + 1].kind = "Word")

NoNewline(toks) == \A i \in 1..Len(toks) : toks[i].kind # "Newline"

IsUnclosedQuoteFailure(r) == IsFailure(r) /\ r.err.error = ParseError("UnclosedQuote")

Plain_token(tok) ==
    tok.kind # "Newline" /\ tok \notin {Quote, At, Backslash}

\* C8: a backslash escapes exactly the token after it: with plain text before
\* and after, the string closes at the later quote mark and its single
\* literal is the text without the backslash.
C8_EscapesOneToken ==
    (pc = "done" /\ op.name = "quoted") =>
      \A i \in 2..(Len(tokens) - 2) :
        ( /\ tokens[i] = Backslash
          /\ tokens[i + 1].kind # "Newline"
          /\ tokens[Len(tokens)] = Quote
          /\ \A j \in (2..(i - 1)) \cup ((i + 2)..(Len(tokens) - 1)) :
               Plain_token(tokens[j]) )
        => /\ result.ok
           /\ result.val =
                <<StringParts_String(
                    TextOf(SubSeq(tokens, 2, i - 1))
                      \o TextOf(SubSeq(tokens, i + 1, Len(tokens) - 1)))>>
           /\ result.state.position.idx = Len(tokens)

\* the token index (from 1) of the `@` of an Expression part, and of its last token
ExprFirst(part) == part.expr.range[1].idx
ExprLast(part) == part.expr.range[2].idx

\* C10: the parts of a successful quoted cover the tokens between the quote
\* marks in source order: every Expression part is the ranged expression
\* parsed right after an `@`, every String part is the text of a maximal run
\* of literal tokens (none of them an `@`), so String parts are never
\* adjacent and never empty; "hi @name!" gives
\* [String("hi "), Expression(Variable("name")), String("!")].
C10_Interpolation ==
    (pc = "done" /\ op.name = "quoted" /\ result.ok) =>
      LET parts == result.val
          n == Len(parts)
          close == result.state.position.idx
          \* the tokens a part covers: lo(i)..hi(i)
          lo(i) == IF parts[i].t = "Expression" THEN ExprFirst(parts[i])
                   ELSE IF i = 1 THEN 2
                   ELSE ExprLast(parts[i - 1]) + 1
          hi(i) == IF parts[i].t = "Expression" THEN ExprLast(parts[i])
                   ELSE IF i = n THEN close - 1
                   ELSE ExprFirst(parts[i + 1]) - 1
      IN /\ tokens[close] = tokens[1]
         /\ \A i \in 1..(n - 1) : ~(parts[i].t = "String" /\ parts[i + 1].t = "String")
         /\ n = 0 => close = 2
         /\ n > 0 => (lo(1) = 2 /\ hi(n) = close - 1)
         /\ \A i \in 1..n :
              /\ i < n => hi(i) + 1 = lo(i + 1)
              /\ parts[i].t = "String" =>
                   /\ lo(i) <= hi(i)
                   /\ parts[i].string # ""
                   /\ parts[i].string = TextOf(SubSeq(tokens, lo(i), hi(i)))
                   /\ \A j \in lo(i)..hi(i) : tokens[j] # At
              /\ parts[i].t = "Expression" =>
                   /\ tokens[lo(i)] = At
                   /\ lo(i) < hi(i)
                   /\ LET r == parse(Rule("expression"), CursorAt(tokens, lo(i))) IN
                        /\ r.ok
                        /\ parts[i].expr.value = r.val
                        /\ hi(i) = r.state.position.idx
         /\ tokens = HiName =>
              /\ n = 3
              /\ parts[1] = StringParts_String("hi ")
              /\ parts[2].t = "Expression"
              /\ parts[2].expr.value = [t |-> "Variable", name |-> "name"]
              /\ parts[3] = StringParts_String("!")

C10_Witness ==
    /\ pc = "done" /\ op.name = "quoted"
    /\ tokens = HiName
    /\ result.ok
    /\ Len(result.val) = 3
    /\ result.state.position.idx = 7

(***************************************************************************)
(* plugin_head and plugin_body applied to plugin calls.                    *)
(***************************************************************************)
\* the longest plugin input, not counting `name?` or the body opener
MaxPluginLen == 4

PluginAlphabet ==
    {Word("a"), Symbol(">"), Symbol("|"), Backslash, Newline, Space}

PluginInputs ==
    {<<Word("render"), Symbol("?")>> \o q : q \in SeqsUpTo(PluginAlphabet, MaxPluginLen)}
      \cup {<<Symbol("|")>> \o q : q \in SeqsUpTo(PluginAlphabet, MaxPluginLen)}

InitPlugin ==
    /\ tokens \in PluginInputs
    /\ pc = "ready"
    /\ op = [name |-> "none"]
    /\ result = None

NextPlugin == Apply_plugin_head \/ Apply_plugin_body

SpecPlugin == InitPlugin /\ [][NextPlugin]_vars

RECURSIVE SkipWhile(_, _, _)
\* the first index from i on whose token's kind is not in kinds
SkipWhile(toks, i, kinds) ==
    IF i <= Len(toks) /\ toks[i].kind \in kinds
      THEN SkipWhile(toks, i + 1, kinds)
      ELSE i

RECURSIVE RawCapture(_, _, _, _, _)
\* the capture C9 describes, from index i on: a backslash is dropped and the
\* token after it kept; the capture ends at the first unescaped symbol of
\* stops, or at a Newline when atNewline.  The result is the terminator's
\* index (0 when end-of-input comes first) and the tokens kept.
RawCapture(toks, i, stops, atNewline, kept) ==
    IF i > Len(toks) THEN [end |-> 0, kept |-> kept]
    ELSE IF toks[i] = Backslash
      THEN IF i = Len(toks) THEN [end |-> 0, kept |-> kept]
           ELSE RawCapture(toks, i + 2, stops, atNewline, Append(kept, toks[i + 1]))
    ELSE IF toks[i] \in stops \/ (atNewline /\ toks[i].kind = "Newline")
      THEN [end |-> i, kept |-> kept]
    ELSE RawCapture(toks, i + 1, stops, atNewline, Append(kept, toks[i]))

\* no backslash of toks is directly followed by a Newline
NoEscapedNewline(toks) ==
    \A i \in 1..(Len(toks) - 1) :
      ~(toks[i] = Backslash /\ toks[i + 1].kind = "Newline")

\* C9: after `name?` and spaces plugin_head keeps tokens verbatim up to the
\* next unescaped `>` or `|` or a Newline, and plugin_body, after its opener
\* and blanks, up to the next unescaped `>`; the cursor is left on the
\* terminator and the range runs from the first kept position to it; an
\* escaped `>` is kept and a later unescaped terminator still ends the capture.
C9_RawCapture ==
    /\ (pc = "done" /\ op.name = "plugin_head"
          /\ Len(tokens) >= 2 /\ tokens[1].kind = "Word" /\ tokens[2] = Symbol("?")
          /\ NoEscapedNewline(tokens)) =>
         LET start == SkipWhile(tokens, 3, {"Space", "Indent"})
             c == RawCapture(tokens, start, {Symbol(">"), Symbol("|")}, TRUE, <<>>)
         IN c.end # 0 =>
              /\ result.ok
              /\ result.val[2].value = c.kept
              /\ result.val[2].range[1].idx = start - 1
              /\ result.val[2].range[2].idx = c.end - 1
              /\ result.state = CursorAt(tokens, c.end - 1)
    /\ (pc = "done" /\ op.name = "plugin_body"
          /\ Len(tokens) >= 1 /\ tokens[1] = Symbol("|")) =>
         LET start == SkipWhile(tokens, 2, {"Space", "Indent", "Newline"})
             c == RawCapture(tokens, start, {Symbol(">")}, FALSE, <<>>)
         IN c.end # 0 =>
              /\ result.ok
              /\ result.val.value = c.kept
              /\ result.val.range[1].idx = start - 1
              /\ result.val.range[2].idx = c.end - 1
              /\ result.state = CursorAt(tokens, c.end - 1)

NoBackslash(toks) == \A i \in 1..Len(toks) : toks[i] # Backslash

(***************************************************************************)
(* file applied to whole inputs, built from source fragments.              *)
(***************************************************************************)
\* the largest number of fragments in a file input
MaxFragments == 3

FileFragments ==
    { <<Symbol("<")>>,
      <<Symbol("<"), Word("a")>>,
      <<Symbol(">")>>,
      <<Word("a")>>,
      <<Symbol("!")>>,
      <<Symbol("?")>>,
      <<Space>>,
      <<Symbol("|")>>,
      <<Newline>>,
      <<Symbol("=")>>,
      <<Quote>>,
      <<Symbol("="), Quote, Word("a"), Quote>>,
      <<Space, Word("a"), Symbol("="), Quote, Word("a"), Quote>>,
      <<Word("lambda"), Space, Word("a")>>,
      <<Word("let"), Space, Word("a")>>,
      <<Word("macro"), Space, Word("a")>>,
      <<Word("content"), Symbol("!")>>,
      <<Symbol("+"), Word("a")>>,
      <<At, Symbol("{")>>,
      <<Backslash>> }

RECURSIVE FragmentSeqs(_)
\* the token sequences made of at most n fragments
FragmentSeqs(n) ==
    IF n = 0 THEN {<<>>}
    ELSE LET shorter == FragmentSeqs(n - 1) IN
         shorter \cup {q \o f : q \in shorter, f \in FileFragments}

\* the tokens of `<div class="x">`
DivClass ==
    <<Symbol("<"), Word("div"), Space, Word("class"), Symbol("="),
      Quote, Word("x"), Quote, Symbol(">")>>

\* the tokens of a file with items of every kind, one per line:
\* <a> / lambda f / <macro m> / <b> / let v="x" / lambda g / <c!> /
\* <macro n> / <content!> / <p?>
MixedFile ==
    <<Symbol("<"), Word("a"), Symbol(">"), Newline,
      Word("lambda"), Space, Word("f"), Newline,
      Symbol("<"), Word("macro"), Space, Word("m"), Symbol(">"), Newline,
      Symbol("<"), Word("b"), Symbol(">"), Newline,
      Word("let"), Space, Word("v"), Symbol("="), Quote, Word("x"), Quote, Newline,
      Word("lambda"), Space, Word("g"), Newline,
      Symbol("<"), Word("c"), Symbol("!"), Symbol(">"), Newline,
      Symbol("<"), Word("macro"), Space, Word("n"), Symbol(">"), Newline,
      Symbol("<"), Word("content"), Symbol("!"), Symbol(">"), Newline,
      Symbol("<"), Word("p"), Symbol("?"), Symbol(">")>>

\* the tokens of a tag whose attribute value interpolates an expression that
\* holds another quoted value, and whose body holds text and a child tag:
\* <a x="@{not "@b"}"| / text <c>>
NestedFile ==
    <<Symbol("<"), Word("a"), Space, Word("x"), Symbol("="), Quote, At,
      Symbol("{"), Word("not"), Space, Quote, At, Word("b"), Quote, Symbol("}"),
      Quote, Symbol("|"), Newline,
      Word("text"), Space, Symbol("<"), Word("c"), Symbol(">"), Symbol(">")>>

\* the tokens of `<a x="a\"b">`
EscapedFile ==
    <<Symbol("<"), Word("a"), Space, Word("x"), Symbol("="), Quote, Word("a"),
      Backslash, Quote, Word("b"), Quote, Symbol(">")>>

FileInputs ==
    FragmentSeqs(MaxFragments) \cup {DivClass, MixedFile, NestedFile, EscapedFile}

InitFile ==
    /\ tokens \in FileInputs
    /\ pc = "ready"
    /\ op = [name |-> "none"]
    /\ result = None

NextFile == Apply_file

SpecFile == InitFile /\ [][NextFile]_vars

\* C1: when file returns Err((err, returned_tokens)), returned_tokens is the
\* input sequence: same length, same token at every index.
C1_TokensReturned ==
    (pc = "done" /\ op.name = "file" /\ ~result.ok) =>
      /\ Len(result.tokens) = Len(tokens)
      /\ \A i \in 1..Len(tokens) : result.tokens[i] = tokens[i]

\* a parse that failed after consuming several tokens
C1_Witness ==
    /\ pc = "done" /\ op.name = "file"
    /\ ~result.ok
    /\ Len(tokens) >= 4
    /\ result.err.start_position.idx >= 3
    /\ result.tokens = tokens

\* the Failures introduced while a result was computed
FailuresIn(log) == SelectSeq(log, LAMBDA e : e[1] = "Failure")

\* C6: a Failure returned by any sub-parser run by file is never dropped or
\* downgraded: file returns Err carrying that Failure, with its error kind
\* and positions.
C6_FailureSticky ==
    (pc = "done" /\ op.name = "file") =>
      LET failures == FailuresIn(result.log) IN
      failures # <<>> =>
        /\ IsFailure(result)
        /\ \A i \in 1..Len(failures) : result.err = failures[i][2]

\* an unclosed quote inside an optional value, below and_maybe, preceding,
\* map, or and zero_or_more
C6_Witness ==
    /\ pc = "done" /\ op.name = "file"
    /\ tokens = <<Word("lambda"), Space, Word("a"), Symbol("="), Quote>>
    /\ IsUnclosedQuoteFailure(result)
    /\ FailuresIn(result.log) = <<<<"Failure", result.err>>>>

(***************************************************************************)
(* wrapped_expr applied to token sequences that start with `{`.            *)
(***************************************************************************)
Apply_wrapped_expr ==
    /\ pc = "ready"
    /\ pc' = "done"
    /\ op' = [name |-> "wrapped_expr"]
    /\ result' = wrapped_expr(ParserState_new(tokens))
    /\ UNCHANGED tokens

\* the longest free-form expression input, not counting its opening brace
MaxExprLen == 4

LBrace == Symbol("{")
RBrace == Symbol("}")
Bang == Symbol("!")

ExprWords == {"a", "b", "and", "or", "not"}

ExprAlphabet ==
    {LBrace, RBrace, Bang, Space, Quote,
     Word("a"), Word("and"), Word("not")}

\* the tokens of `{x f y}`, `{f x}` and `{x}`
BinaryForm(x, f, y) == <<LBrace, Word(x), Space, Word(f), Space, Word(y), RBrace>>
UnaryForm(f, x) == <<LBrace, Word(f), Space, Word(x), RBrace>>
PlainForm(x) == <<LBrace, Word(x), RBrace>>
NoneForm == <<LBrace, Bang, RBrace>>

\* the most opening braces in a free-form expression input, the first included
MaxBraces == 2

\* the number of opening braces in a token sequence
Braces(x) == Cardinality({i \in 1..Len(x) : x[i] = LBrace})

ExprInputs ==
    {<<LBrace>> \o q : q \in {x \in SeqsUpTo(ExprAlphabet, MaxExprLen) :
                                  Braces(x) < MaxBraces}}
      \cup {BinaryForm(x, f, y) : x \in ExprWords, f \in {"and", "or"}, y \in ExprWords}
      \cup {UnaryForm("not", x) : x \in ExprWords}
      \cup {PlainForm(x) : x \in ExprWords}
      \cup {NoneForm}

InitExpr ==
    /\ tokens \in ExprInputs
    /\ pc = "ready"
    /\ op = [name |-> "none"]
    /\ result = None

NextExpr == Apply_wrapped_expr

SpecExpr == InitExpr /\ [][NextExpr]_vars

\* Variable(x) with the range of the one token at cursor index i
VariableAt(x, toks, i) ==
    Ranged([t |-> "Variable", name |-> x],
           CursorAt(toks, i).position, CursorAt(toks, i + 1).position)

\* the four alternatives of a wrapped expression, in the order of the source
WrappedAlternatives ==
    <<Rule("binary_func_expr"), Rule("unary_func_expr"), Rule("expression"),
      P_map(P_character("!"), "Expression::None")>>

\* a successful wrapped_expr returns the value of the first alternative that
\* succeeds on the cursor after `{` and spaces
FirstAlternativeWins ==
    result.ok =>
      LET s1 == parse(skip_spaces, CursorAt(tokens, 1)).state IN
      \E i \in 1..4 :
        /\ parse(WrappedAlternatives[i], s1).ok
        /\ \A j \in 1..(i - 1) : ~parse(WrappedAlternatives[j], s1).ok
        /\ result.val = parse(WrappedAlternatives[i], s1).val

\* the results C11 names, for the words x of plainWords in `{x}` and the
\* words x of operandWords in `{not x}`
WrappedForms(plainWords, operandWords) ==
    /\ \A x \in ExprWords, y \in ExprWords, f \in {"and", "or"} :
         tokens = BinaryForm(x, f, y) =>
           /\ result.ok
           /\ result.val = [t |-> "BinFunc",
                             fun |-> IF f = "and" THEN "And" ELSE "Or",
                             expr1 |-> VariableAt(x, tokens, 1),
                             expr2 |-> VariableAt(y, tokens, 5)]
           /\ result.state = CursorAt(tokens, 7)
    /\ \A x \in operandWords :
         tokens = UnaryForm("not", x) =>
           /\ result.ok
           /\ result.val = [t |-> "UniFunc", fun |-> "Not",
                             expr |-> VariableAt(x, tokens, 3)]
           /\ result.state = CursorAt(tokens, 5)
    /\ \A x \in plainWords :
         tokens = PlainForm(x) =>
           /\ result.ok
           /\ result.val = [t |-> "Variable", name |-> x]
           /\ result.state = CursorAt(tokens, 3)
    /\ tokens = NoneForm =>
         /\ result.ok
         /\ result.val = [t |-> "None"]
         /\ result.state = CursorAt(tokens, 3)

\* C11 as stated: for all words a, b, `{a and b}` gives BinFunc(And, ...),
\* `{a or b}` BinFunc(Or, ...), `{not a}` UniFunc(Not, Variable(a)), `{a}`
\* Variable(a) and `{!}` Expression::None, the cursor ending after `}`; the
\* first alternative that succeeds determines the result.
C11_AnyWords ==
    (pc = "done" /\ op.name = "wrapped_expr") =>
      /\ WrappedForms(ExprWords, ExprWords)
      /\ FirstAlternativeWins

\* C11 amended: the same, where the word of `{a}` is not `not` and the
\* operand of `{not a}` is not `and` or `or`.
C11_WrappedForms ==
    (pc = "done" /\ op.name = "wrapped_expr") =>
      /\ WrappedForms(ExprWords \ {"not"}, ExprWords \ {"and", "or"})
      /\ FirstAlternativeWins

\* `{a and b}` parsed to the binary form and the cursor is after `}`
C11_Witness ==
    /\ pc = "done" /\ op.name = "wrapped_expr"
    /\ tokens = BinaryForm("a", "and", "b")
    /\ result.ok
    /\ result.val.t = "BinFunc" /\ result.val.fun = "And"
    /\ result.val.expr2.value = [t |-> "Variable", name |-> "b"]
    /\ result.state.tokens = <<>>

(***************************************************************************)
(* Tree assembly.                                                          *)
(***************************************************************************)
BodyKinds == {"HtmlTag", "MacroCall", "PlugCall", "Content"}

\* the nodes of N whose kind is in kinds, in the order of N
OfKinds(N, kinds) == SelectSeq(N, LAMBDA n : n.t \in kinds)

\* C12: when the top-level grammar succeeds with node sequence N, every node
\* of N is in exactly one bucket of the ParsedFile (HtmlTag, MacroCall,
\* PlugCall and Content in body, MacroDef in defined_macros, LambdaDef in
\* defined_lambdas, VarDef in defined_variables), each bucket lists its nodes
\* in the order of N, and the bucket lengths add up to the length of N.
C12_TreeAssembly ==
    (pc = "done" /\ op.name = "file" /\ result.ok) =>
      LET N == result.nodes
          out == result.val
          inBody == OfKinds(N, BodyKinds)
          macros == OfKinds(N, {"MacroDef"})
          lambdas == OfKinds(N, {"LambdaDef"})
          variables == OfKinds(N, {"VarDef"})
      IN /\ \A i \in 1..Len(N) :
              N[i].t \in BodyKinds \cup {"MacroDef", "LambdaDef", "VarDef"}
         /\ out.body =
              [i \in 1..Len(inBody) |->
                 IF inBody[i].t = "HtmlTag"
                   THEN [t |-> "HtmlTag", tag |-> merge_subtags(inBody[i].tag)]
                   ELSE inBody[i]]
         /\ out.defined_macros = [i \in 1..Len(macros) |-> macros[i].mac]
         /\ out.defined_lambdas = [i \in 1..Len(lambdas) |-> lambdas[i].lambda]
         /\ out.defined_variables = [i \in 1..Len(variables) |-> variables[i].var]
         /\ Len(out.body) + Len(out.defined_macros) + Len(out.defined_lambdas)
              + Len(out.defined_variables) = Len(N)

\* ten items of all seven kinds, several of them in each bucket
C12_Witness ==
    /\ pc = "done" /\ op.name = "file"
    /\ tokens = MixedFile
    /\ result.ok
    /\ Len(result.nodes) = 10
    /\ Len(result.val.body) = 5
    /\ result.val.body[5].t = "PlugCall"
    /\ Len(result.val.defined_macros) = 2
    /\ result.val.defined_lambdas = <<[name |-> "f", value |-> None],
                                       [name |-> "g", value |-> None]>>
    /\ Len(result.val.defined_variables) = 1

(***************************************************************************)
(* some_tag applied to token sequences that start with `<`.                *)
(***************************************************************************)
Apply_some_tag ==
    /\ pc = "ready"
    /\ pc' = "done"
    /\ op' = [name |-> "some_tag"]
    /\ result' = some_tag(ParserState_new(tokens))
    /\ UNCHANGED tokens

\* the longest free-form tag input, not counting its `<`
MaxTagLen == 4

Lt == Symbol("<")
Gt == Symbol(">")
Pipe == Symbol("|")
Plus == Symbol("+")
Question == Symbol("?")

TagNames == {"a", "macro", "content"}

TagAlphabet ==
    {Word("a"), Word("macro"), Word("content"), Bang, Question, Space,
     Gt, Pipe, Plus, Lt, Newline}

\* the tokens of `<n!>`, `<n?>`, `<macro n>` and of `<n` follower `>`
CallForm(n) == <<Lt, Word(n), Bang, Gt>>
PlugForm(n) == <<Lt, Word(n), Question, Gt>>
DefForm(n) == <<Lt, Word("macro"), Space, Word(n), Gt>>
TagForm(n, follower) == <<Lt, Word(n)>> \o follower \o <<Gt>>

\* what may follow the name of a tag that closes at once or after a subtag
TagFollowers ==
    {<<>>, <<Space>>, <<Indent>>, <<Pipe>>, <<Newline>>, <<Plus, Word("b")>>}

\* the tokens of `<macro! greet name="World">`
MacroCallExample ==
    <<Lt, Word("macro"), Bang, Space, Word("greet"), Space, Word("name"),
      Symbol("="), Quote, Word("World"), Quote, Gt>>

\* the tokens of `<macro greet name | Hello @name!>`
MacroDefExample ==
    <<Lt, Word("macro"), Space, Word("greet"), Space, Word("name"), Space, Pipe,
      Space, Word("Hello"), Space, At, Word("name"), Bang, Gt>>

TagInputs ==
    {<<Lt>> \o q : q \in SeqsUpTo(TagAlphabet, MaxTagLen)}
      \cup {CallForm(n) : n \in TagNames}
      \cup {PlugForm(n) : n \in TagNames}
      \cup {DefForm(n) : n \in TagNames}
      \cup {TagForm(n, f) : n \in TagNames, f \in TagFollowers}
      \cup {MacroCallExample, MacroDefExample}

InitTag ==
    /\ tokens \in TagInputs
    /\ pc = "ready"
    /\ op = [name |-> "none"]
    /\ result = None

NextTag == Apply_some_tag

SpecTag == InitTag /\ [][NextTag]_vars

TagKinds == {"HtmlTag", "MacroCall", "MacroDef", "PlugCall", "Content"}

\* the result is a node of the given kind or a committed error
KindOrFailure(kind) == (result.ok /\ result.val.t = kind) \/ IsFailure(result)

\* the arguments are in source order and each value is None or Some
ArgumentsInOrder(arguments) ==
    /\ \A i \in 1..Len(arguments) : arguments[i].value.kind \in {"None", "Some"}
    /\ \A i \in 1..(Len(arguments) - 1) :
         arguments[i].name.range[2].idx <= arguments[i + 1].name.range[1].idx

\* the kind is selected by the name and the token after it; plugNames are the
\* names n for which `<n?>` is a plugin call
TagKindSelection(plugNames) ==
    LET name == tokens[2].text
        after == tokens[3]
        at == SkipWhile(tokens, 3, {"Space", "Indent"})
        word == tokens[at]
    IN
    /\ result.ok => result.val.t \in TagKinds
    /\ (Len(tokens) >= 3 /\ tokens[2].kind = "Word") =>
         /\ (after = Bang /\ name # "content") =>
              /\ KindOrFailure("MacroCall")
              /\ result.ok =>
                   /\ result.val.mac.name.value = name
                   /\ result.val.mac.body = <<>>
                   /\ ArgumentsInOrder(result.val.mac.arguments)
         /\ (after = Bang /\ name = "content") => KindOrFailure("Content")
         /\ after = Question =>
              /\ KindOrFailure("PlugCall")
              /\ result.ok => result.val.plug.name.value = name
         /\ (name = "macro" /\ after.kind \in {"Space", "Indent", "Word"}
               /\ at <= Len(tokens) /\ word.kind = "Word") =>
              /\ KindOrFailure("MacroDef")
              /\ result.ok =>
                   /\ result.val.mac.name.value = word.text
                   /\ ArgumentsInOrder(result.val.mac.arguments)
         /\ (name # "macro"
               /\ (after.kind \in {"Space", "Indent", "Newline"}
                     \/ after \in {Pipe, Gt, Lt, Plus})) =>
              /\ KindOrFailure("HtmlTag")
              /\ result.ok => result.val.tag.name.value = name
    /\ \A n \in TagNames :
         /\ (tokens = CallForm(n) /\ n # "content") =>
              (result.ok /\ result.val.t = "MacroCall")
         /\ tokens = CallForm("content") => (result.ok /\ result.val.t = "Content")
         /\ (tokens = PlugForm(n) /\ n \in plugNames) =>
              (result.ok /\ result.val.t = "PlugCall")
         /\ tokens = DefForm(n) => (result.ok /\ result.val.t = "MacroDef")
         /\ \A f \in TagFollowers :
              (tokens = TagForm(n, f) /\ n # "macro") =>
                (result.ok /\ result.val.t = "HtmlTag")
    /\ tokens = MacroCallExample =>
         /\ result.ok /\ result.val.t = "MacroCall"
         /\ Len(result.val.mac.arguments) = 2
         /\ result.val.mac.arguments[1].name.value = "greet"
         /\ result.val.mac.arguments[1].value = None
         /\ result.val.mac.arguments[2].name.value = "name"
         /\ result.val.mac.arguments[2].value = Some(<<StringParts_String("World")>>)
    /\ tokens = MacroDefExample =>
         /\ result.ok /\ result.val.t = "MacroDef"
         /\ result.val.mac.name.value = "greet"
         /\ Len(result.val.mac.arguments) = 1
         /\ result.val.mac.arguments[1].name.value = "name"
         /\ result.val.mac.arguments[1].value = None
         /\ Len(result.val.mac.body) = 1

\* C13 as stated: after `<`, NAME! (NAME not `content`) is a MacroCall with
\* empty body and arguments in order, `macro NAME` a MacroDef, NAME? a
\* PlugCall for every name, `content!` Content, and a name other than `macro`
\* followed by space, indent, body opener, `>`, `<` or `+` an HtmlTag; a
\* `macro NAME` is never a call and a NAME! never a definition.
C13_AnyPluginName ==
    (pc = "done" /\ op.name = "some_tag") => TagKindSelection(TagNames)

\* C13 amended: the same, where the name of a plugin call is not `macro`.
C13_TagKinds ==
    (pc = "done" /\ op.name = "some_tag") => TagKindSelection(TagNames \ {"macro"})

\* the definition `<macro greet name | Hello @name!>` was parsed as a MacroDef
\* with one argument and a one-line body
C13_Witness ==
    /\ pc = "done" /\ op.name = "some_tag"
    /\ tokens = MacroDefExample
    /\ result.ok
    /\ result.val.t = "MacroDef"
    /\ Len(result.val.mac.arguments) = 1
    /\ result.val.mac.body[1].t = "String"
    /\ result.state.tokens = <<>>

(***************************************************************************)
(* Every grammar function applied at every cursor of an input.             *)
(***************************************************************************)
RuleNames ==
    {"space", "indent", "newline", "some_symbol", "literal", "quote_mark",
     "tag_opener", "subtag_opener", "tag_closer", "expr_opener", "expr_closer",
     "macro_mark", "plugin_mark", "body_opener", "macro_name", "equals",
     "variable_name", "non_macro_starter", "var_def_starter",
     "lambda_def_starter", "macro_starter", "expression", "binary_func",
     "unary_func", "binary_func_expr", "unary_func_expr", "wrapped_expr",
     "quoted", "variable_definition", "lambda_definition", "some_tag",
     "some_child_tag", "tag", "content_macro", "plug_call", "macro_call",
     "macro_def", "tag_head", "plugin_head", "macro_call_head",
     "macro_def_head", "tag_body", "plugin_body", "string", "subtag",
     "attribute", "argument"}

\* a grammar function is run on a cursor of the input
Apply_rule ==
    /\ pc = "ready"
    /\ \E name \in RuleNames, k \in 0..Len(tokens) :
         LET state == CursorAt(tokens, k) IN
         /\ op' = [name |-> "rule", rule |-> name, state |-> state]
         /\ result' = parse(Rule(name), state)
    /\ pc' = "done"
    /\ UNCHANGED tokens

\* peek of a grammar function is run on a cursor of the input
Apply_peek ==
    /\ pc = "ready"
    /\ \E name \in RuleNames, k \in 0..Len(tokens) :
         LET state == CursorAt(tokens, k) IN
         /\ op' = [name |-> "peek", rule |-> name, state |-> state]
         /\ result' = peek(Rule(name), state)
    /\ pc' = "done"
    /\ UNCHANGED tokens

\* the longest free-form input of the grammar functions
MaxRuleLen == 3

RuleAlphabet == {Lt, Gt, Word("a"), Space, Newline, Quote}

\* the tokens of `<p? x \> y|z>` and of a tag with a two-line body
PlugExample ==
    <<Lt, Word("p"), Question, Space, Word("x"), Backslash, Gt, Word("y"), Pipe,
      Word("z"), Gt>>
TwoLineTag ==
    <<Lt, Word("a"), Pipe, Newline, Indent, Word("b"), Newline, Lt, Word("c"), Gt, Gt>>

RuleInputs ==
    SeqsUpTo(RuleAlphabet, MaxRuleLen)
      \cup {DivClass, MacroCallExample, MacroDefExample, HiName, PlugExample,
            TwoLineTag, BinaryForm("a", "and", "b")}

InitRules ==
    /\ tokens \in RuleInputs
    /\ pc = "ready"
    /\ op = [name |-> "none"]
    /\ result = None

NextRules == Apply_rule \/ Apply_peek

SpecRules == InitRules /\ [][NextRules]_vars

\* the order of positions: by token index, and by line then column
PosLeq(p, q) ==
    /\ p.idx <= q.idx
    /\ (p.line < q.line \/ (p.line = q.line /\ p.column <= q.column))
PosLess(p, q) ==
    /\ p.idx < q.idx
    /\ (p.line < q.line \/ (p.line = q.line /\ p.column < q.column))

RangedEventsIn(log) == SelectSeq(log, LAMBDA e : e[1] = "Ranged")

\* C14: a successful parse returns a cursor on a suffix of the input cursor's
\* tokens whose position is not before the input cursor's, and is after it
\* when a token was consumed; peek(p) returns the input cursor itself; every
\* Ranged built has start = the position before its construct, end = the
\* position after it, and end >= start.
C14_Positions ==
    (pc = "done" /\ op.name \in {"rule", "peek"}) =>
      /\ result.ok =>
           LET consumed == Len(op.state.tokens) - Len(result.state.tokens) IN
           /\ consumed >= 0
           /\ result.state.tokens =
                SubSeq(op.state.tokens, consumed + 1, Len(op.state.tokens))
           /\ result.state.position.idx = op.state.position.idx + consumed
           /\ PosLeq(op.state.position, result.state.position)
           /\ consumed >= 1 => PosLess(op.state.position, result.state.position)
           /\ consumed = 0 => result.state = op.state
      /\ (op.name = "peek" /\ result.ok) =>
           /\ result.state = op.state
           /\ result.val = parse(Rule(op.rule), op.state).val
      /\ (op.name = "peek" /\ ~result.ok) =>
           Plain(result) = Plain(parse(Rule(op.rule), op.state))
      /\ LET events == RangedEventsIn(result.log) IN
         \A i \in 1..Len(events) :
           /\ events[i][2] = <<events[i][3], events[i][4]>>
           /\ PosLeq(events[i][2][1], events[i][2][2])
           /\ PosLeq(op.state.position, events[i][2][1])

\* a tag with a two-line body was parsed from its `<`: the cursor moved to a
\* later line and a smaller column, and ranges were built on the way
C14_Witness ==
    /\ pc = "done" /\ op.name = "rule" /\ op.rule = "some_tag"
    /\ tokens = TwoLineTag
    /\ op.state.position.idx = 0
    /\ result.ok
    /\ result.state.position = TokenPos(11, 2, 4)
    /\ Len(RangedEventsIn(result.log)) >= 2

\* peek of tag_head succeeded on `<div class="x">` after the `<` and left the
\* cursor where it was
C14_PeekWitness ==
    /\ pc = "done" /\ op.name = "peek" /\ op.rule = "tag_head"
    /\ tokens = DivClass
    /\ op.state.position.idx = 1
    /\ result.ok
    /\ result.state = op.state
    /\ parse(Rule(op.rule), op.state).state.position.idx = 8

(***************************************************************************)
(* Newlines in quoted strings.                                             *)
(***************************************************************************)
\* token i of toks is a Newline and only plain text lies between the opening
\* quote mark and it
NewlineMetAt(toks, i) ==
    /\ i \in 2..Len(toks)
    /\ toks[i].kind = "Newline"
    /\ \A j \in 2..(i - 1) :
         toks[j].kind # "Newline" /\ toks[j] \notin {Quote, Apostrophe, At, Backslash}

\* C15: when quoted meets a Newline token before the closing quote mark it
\* returns a Failure whose kind is NewlineInQuote.
C15_NewlineIsFailure ==
    (pc = "done" /\ op.name = "quoted") =>
      \A i \in 2..Len(tokens) :
        NewlineMetAt(tokens, i) =>
          /\ IsFailure(result)
          /\ result.err.error = ParseError("NewlineInQuote")

(***************************************************************************)
(* The commit scope of wrapped expressions.                                *)
(***************************************************************************)
\* C16: once wrapped_expr has consumed the opening `{`, every failure of the
\* expression, a missing or misplaced closing `}` included, is a Failure and
\* never a recoverable Error.
C16_CommittedAfterBrace ==
    (pc = "done" /\ op.name = "wrapped_expr" /\ tokens[1] = LBrace /\ ~result.ok) =>
      IsFailure(result)

(***************************************************************************)
(* string applied to free text.                                            *)
(***************************************************************************)
Apply_string ==
    /\ pc = "ready"
    /\ pc' = "done"
    /\ op' = [name |-> "string"]
    /\ result' = string(ParserState_new(tokens))
    /\ UNCHANGED tokens

\* the longest free-text input
MaxStringLen == 4

StringAlphabet == {Word("a"), Space, Indent, Newline, Lt, Gt, Backslash, At}

\* the tokens of `a` Newline `  b c<`
IndentedText ==
    <<Word("a"), Newline, Space, Space, Word("b"), Space, Word("c"), Lt>>

StringInputs == SeqsUpTo(StringAlphabet, MaxStringLen) \cup {IndentedText}

InitString ==
    /\ tokens \in StringInputs
    /\ pc = "ready"
    /\ op = [name |-> "none"]
    /\ result = None

NextString == Apply_string

SpecString == InitString /\ [][NextString]_vars

RECURSIVE FreeText(_, _, _, _)
\* the text run C17 describes, from index i on, for tokens without `@` and
\* backslash: Newline tokens and the Space/Indent run right after a Newline
\* are dropped, every other token is kept, and the run ends at the first `<`
\* or `>`.  The result is the terminator's index (0 when end-of-input comes
\* first) and the text kept.
FreeText(toks, i, text, line_start) ==
    IF i > Len(toks) THEN [end |-> 0, text |-> text]
    ELSE IF toks[i] \in {Lt, Gt} THEN [end |-> i, text |-> text]
    ELSE IF toks[i].kind = "Newline" THEN FreeText(toks, i + 1, text, TRUE)
    ELSE IF toks[i].kind \in {"Space", "Indent"} /\ line_start
      THEN FreeText(toks, i + 1, text, TRUE)
    ELSE FreeText(toks, i + 1, text \o get_as_string(toks[i]), FALSE)

NoAt(toks) == \A i \in 1..Len(toks) : toks[i] # At

\* C17: string strips only the Space/Indent run that immediately follows a
\* Newline and keeps later Space/Indent tokens of the line; the run ends,
\* unconsumed, at the first unescaped `<` or `>`, with Error(EmptyString) when
\* no text was collected, and end-of-input gives Failure(EndlessString).
C17_IndentationOnly ==
    (pc = "done" /\ op.name = "string" /\ NoBackslash(tokens) /\ NoAt(tokens)) =>
      LET c == FreeText(tokens, 1, "", FALSE) IN
      /\ c.end = 0 =>
           (IsFailure(result) /\ result.err.error = ParseError("EndlessString"))
      /\ (c.end # 0 /\ c.text = "") =>
           (IsError(result) /\ result.err.error = ParseError("EmptyString"))
      /\ (c.end # 0 /\ c.text # "") =>
           /\ result.ok
           /\ result.val = <<StringParts_String(c.text)>>
           /\ result.state = CursorAt(tokens, c.end - 1)

(***************************************************************************)
(* The chain of rejected alternatives.                                     *)
(***************************************************************************)
\* C18: when both alternatives of or(a, b) fail with Error at the same cursor,
\* the error returned carries a's error in previous_errors, and its
\* start_position is the position of that cursor.
C18_RejectedChain ==
    (pc = "done" /\ op.name = "or") =>
      LET ra == parse(op.p1, op.state)
          rb == parse(op.p2, op.state)
      IN (IsError(ra) /\ IsError(rb)) =>
           /\ IsError(result)
           /\ result.err.start_position = op.state.position
           /\ \E i \in 1..Len(result.err.previous_errors) :
                result.err.previous_errors[i] = ra.err

\* ---------------------------------------------------------------------
\* C19: termination and progress of the loops and the recursive cycles

\* the iterations recorded in a history
IterationsIn(log) == SelectSeq(log, LAMBDA e : e[1] = "iter")

\* the calls of expression and tag entered in a history
EntriesIn(log) == SelectSeq(log, LAMBDA e : e[1] = "enter")

RECURSIVE CyclesAdvance(_, _, _)
\* from event i on, every call of expression or tag made while a call of the
\* same function is running starts at a later token than that call, and the
\* calls return in the order they were made; open holds the running calls
CyclesAdvance(log, i, open) ==
    IF i > Len(log) THEN open = <<>>
    ELSE LET e == log[i] IN
         IF e[1] = "enter"
           THEN /\ \A j \in 1..Len(open) : open[j][1] = e[2] => open[j][2] < e[3]
                /\ CyclesAdvance(log, i + 1, Append(open, <<e[2], e[3]>>))
         ELSE IF e[1] = "exit"
           THEN /\ open # <<>>
                /\ open[Len(open)][1] = e[2]
                /\ CyclesAdvance(log, i + 1, SubSeq(open, 1, Len(open) - 1))
         ELSE CyclesAdvance(log, i + 1, open)

RECURSIVE NestingDepth(_, _, _)
\* the largest number of calls of expression and tag running at once
NestingDepth(log, i, depth) ==
    IF i > Len(log) THEN 0
    ELSE LET e == log[i]
             d == IF e[1] = "enter" THEN depth + 1
                  ELSE IF e[1] = "exit" THEN depth - 1
                  ELSE depth
             rest == NestingDepth(log, i + 1, d)
         IN IF d > rest THEN d ELSE rest

TopLevelItem ==
    P_preceding(skipped_blanks,
      P_or(P_or(P_map(Rule("some_tag"), "into"),
                P_map(Rule("lambda_definition"), "BodyNodes::LambdaDef")),
           P_map(Rule("variable_definition"), "BodyNodes::VarDef")))

RECURSIVE ItemsFrom(_, _)
\* the top-level items parsed one after the other from state on, up to the
\* first cursor where the item parser fails: the nodes found before that
\* cursor, the cursor, and the error found there
ItemsFrom(state, found) ==
    LET r == parse(TopLevelItem, state) IN
    IF r.ok THEN ItemsFrom(r.state, Append(found, r.val))
    ELSE [nodes |-> found, state |-> state, stop |-> Plain(r)]

\* C20: an error returned by file has Failure severity and some sub-parser
\* produced a Failure; when the top-level item parser fails with an Error at
\* some cursor, file returns Ok with exactly the nodes parsed before that
\* cursor, whether or not tokens remain after it.
C20_FileErrors ==
    (pc = "done" /\ op.name = "file") =>
      LET run == ItemsFrom(ParserState_new(tokens), <<>>) IN
      /\ ~result.ok =>
           /\ result.sev = "Failure"
           /\ FailuresIn(result.log) # <<>>
           /\ IsFailure(run.stop)
           /\ result.err = run.stop.err
      /\ IsError(run.stop) =>
           /\ result.ok
           /\ result.nodes = run.nodes
           /\ FailuresIn(result.log) = <<>>

\* file returned Ok with the one node parsed before an Error of the item
\* parser, with tokens left unparsed after that cursor
C20_Witness ==
    /\ pc = "done"
    /\ op.name = "file"
    /\ result.ok
    /\ Len(result.nodes) = 1
    /\ LET run == ItemsFrom(ParserState_new(tokens), <<>>) IN
       /\ IsError(run.stop)
       /\ run.state.position.idx > 0
       /\ run.state.position.idx < Len(tokens)

====
